---- MODULE Spec2Model ----
(***************************************************************************)
(* The select() chat server of src/server.cpp as a state machine.         *)
(*                                                                         *)
(* The server is one thread: it builds the fd_set, waits in select(),     *)
(* accepts at most one connection, then scans `clients` by index and      *)
(* handles one read per ready client.  Its sockets are blocking and it    *)
(* neither ignores SIGPIPE nor passes MSG_NOSIGNAL, so send() is a point  *)
(* where the peers interleave and where the process can be stopped.       *)
(* Bytes are modelled one by one: the server builds its strings with      *)
(* std::string(buffer), which stops at the first NUL byte.                *)
(*                                                                         *)
(* The client program of src/client.cpp, two threads that share the flag   *)
(* `running`, is a second state machine over its own variables, with its   *)
(* own specification ClientSpec.                                           *)
(***************************************************************************)
EXTENDS Integers, Sequences, FiniteSets, TLC

(***************************************************************************)
(* Bounds of the model.                                                    *)
(***************************************************************************)
\* number of descriptors the process can give to client connections
MaxConns == 2
\* size of the read buffer, scaled down from the source's 1024 bytes
BufSize == 2
\* chunks a peer can have in flight towards the server, per connection
MaxInbound == 1
\* messages a connection's send buffer holds before send() blocks
SndBuf == 1
\* connections that can wait in the listen queue
MaxPending == 1
\* lines the user of the client program types, the username included
MaxLines == 3
\* messages of the server the client program has not read yet
MaxUnread == 1

\* the descriptor socket() returns in main (0, 1, 2 are the standard streams)
server_fd == 3

FDs == (server_fd + 1)..(server_fd + MaxConns)

NUL == "NUL"
Bytes == {NUL, "a"}

\* every byte sequence one read() can return: 1..BufSize bytes
Chunks == UNION {[1..n -> Bytes] : n \in 1..BufSize}

(***************************************************************************)
(* String literals of the server.                                          *)
(***************************************************************************)
Prompt == <<"E","n","t","e","r"," ","y","o","u","r"," ",
            "u","s","e","r","n","a","m","e",":"," ">>
JoinSuffix == <<" ","h","a","s"," ","j","o","i","n","e","d"," ",
                "t","h","e"," ","c","h","a","t","!">>
LeaveSuffix == <<" ","h","a","s"," ","l","e","f","t"," ",
                 "t","h","e"," ","c","h","a","t">>
Separator == <<":"," ">>

VARIABLES
    clients,        \* std::vector<int> clients
    client_names,   \* std::map<int, std::string> client_names
    pc,             \* where the server thread is in main's loop
    read_fds,       \* fd_set read_fds
    max_fd,         \* int max_fd
    activity,       \* int activity, the last result of select()
    i,              \* the scan loop's index (0-based, as in the source)
    frame,          \* the running broadcast call and what follows it
    status,         \* "running", or how the process ended
    pending,        \* connections waiting in the listen queue
    peer,           \* per descriptor: state of the connection's other end
    inbound,        \* per descriptor: number of chunks waiting to be read
    outq,           \* per descriptor: number of messages sent and not yet taken by the peer
    ev,             \* history: the event being handled and its pre-state
    sent,           \* history: the send() calls of the event being handled
    reads,          \* history: descriptors read in this loop iteration
    firstMsg,       \* history: first message sent on a descriptor since accept
    hasRead         \* history: a read on the descriptor returned data since its accept

\* the client program (src/client.cpp)
VARIABLES
    running,        \* bool running, shared by the two threads
    view,           \* per thread: the value of running its last access gave
    main_pc,        \* where the main thread is
    recv_pc,        \* where the thread running recieveMessage is
    input,          \* std::string message (username at the first prompt)
    typed,          \* lines the user has typed so far
    conn,           \* the connection as the client's kernel knows it
    unread,         \* messages of the server waiting to be read
    nsent           \* history: number of send() calls of the main thread

svars == <<clients, client_names, pc, read_fds, max_fd, activity, i, frame,
           status, pending, peer, inbound, outq, ev, sent, reads, firstMsg,
           hasRead>>

cvars == <<running, view, main_pc, recv_pc, input, typed, conn, unread,
           nsent>>

vars == <<svars, cvars>>

Range(s) == {s[k] : k \in 1..Len(s)}

\* the empty std::map
NoNames == [fd \in {} |-> <<>>]

NoFrame == [msg |-> <<>>, sender |-> -1, j |-> 0, then |-> "none", client |-> -1]
NoEvent == [type |-> "none"]
NoChunk == <<>>

Init ==
    /\ clients = <<>>
    /\ client_names = NoNames
    /\ pc = "build"
    /\ read_fds = {}
    /\ max_fd = server_fd
    /\ activity = 0
    /\ i = 0
    /\ frame = NoFrame
    /\ status = "running"
    /\ pending = 0
    /\ peer = [fd \in FDs |-> "none"]
    /\ inbound = [fd \in FDs |-> 0]
    /\ outq = [fd \in FDs |-> 0]
    /\ ev = NoEvent
    /\ sent = <<>>
    /\ reads = <<>>
    /\ firstMsg = [fd \in FDs |-> NoChunk]
    /\ hasRead = [fd \in FDs |-> FALSE]
    \* the client program after connect() has returned
    /\ running = TRUE
    /\ view = [t \in {"main", "recv"} |-> TRUE]
    /\ main_pc = "username"
    /\ recv_pc = "unstarted"
    /\ input = ""
    /\ typed = 0
    /\ conn = "open"
    /\ unread = 0
    /\ nsent = 0

(***************************************************************************)
(* Pure helpers.                                                           *)
(***************************************************************************)
Min(S) == CHOOSE x \in S : \A y \in S : x <= y
Max(S) == CHOOSE x \in S : \A y \in S : x >= y

\* the 0-based index idx of a vector removed: v.erase(v.begin() + idx)
EraseAt(v, idx) == SubSeq(v, 1, idx) \o SubSeq(v, idx + 2, Len(v))

\* std::map operator[] assignment and erase
MapPut(m, k, v) == [x \in DOMAIN m \cup {k} |-> IF x = k THEN v ELSE m[x]]
MapErase(m, k) == [x \in DOMAIN m \ {k} |-> m[x]]

\* char buffer[1024]; memset(buffer, 0, ...); read(client, buffer, 1024):
\* the chunk's bytes followed by the NUL bytes memset left
Buffer(chunk) == chunk \o [k \in 1..(BufSize - Len(chunk)) |-> NUL]

HasNul(buf) == \E k \in 1..Len(buf) : buf[k] = NUL

\* the bytes std::string(const char*) copies: those before the first NUL
RECURSIVE CString(_)
CString(buf) ==
    IF buf = <<>> \/ Head(buf) = NUL THEN <<>>
    ELSE <<Head(buf)>> \o CString(Tail(buf))

\* what lies behind the buffer when no NUL byte is inside it: the bytes
\* std::string(buffer) picks up there until it meets a NUL
Overrun == {<<>>, <<"a">>}

\* std::string message(buffer): every string the construction can give
MessageOf(chunk) ==
    LET buf == Buffer(chunk)
    IN  IF HasNul(buf) THEN {CString(buf)}
        ELSE {buf \o g : g \in Overrun}

\* the construction reads past the end of the buffer
ReadsPastBuffer(chunk) == ~HasNul(Buffer(chunk))

\* select()'s notion of a descriptor being ready for reading
Readable(fd) ==
    IF fd = server_fd THEN pending > 0
    ELSE inbound[fd] > 0 \/ peer[fd] \in {"fin", "rsterr", "rst"}

\* what the kernel does with a send() on a blocking socket
SendOutcome(fd) ==
    CASE peer[fd] = "rst" -> "sigpipe"
      [] peer[fd] = "rsterr" -> "error"
      [] peer[fd] \in {"open", "fin"} /\ outq[fd] < SndBuf -> "ok"
      [] OTHER -> "block"

\* history of a send() call that returned
Logged(fd, msg, ok) == Append(sent, [to |-> fd, msg |-> msg, ok |-> ok])
FirstNoted(fd, msg) ==
    IF firstMsg[fd] = NoChunk THEN [firstMsg EXCEPT ![fd] = msg] ELSE firstMsg

(***************************************************************************)
(* The server loop.                                                        *)
(***************************************************************************)
Running == status = "running"

\* FD_ZERO, FD_SET of the listener and of every client, max_fd
BuildInterest ==
    /\ Running /\ pc = "build"
    /\ read_fds' = {server_fd} \cup Range(clients)
    /\ max_fd' = Max({server_fd} \cup Range(clients))
    /\ pc' = "select"
    /\ reads' = <<>>
    /\ ev' = NoEvent
    /\ sent' = <<>>
    /\ activity' = 0
    /\ UNCHANGED <<clients, client_names, i, frame, status, pending,
                   peer, inbound, outq, firstMsg, hasRead>>
    /\ UNCHANGED cvars

\* select() returns the ready descriptors; it blocks while there is none
SelectReady ==
    /\ Running /\ pc = "select"
    /\ LET ready == {fd \in read_fds : fd <= max_fd /\ Readable(fd)}
       IN  /\ ready # {}
           /\ read_fds' = ready
           /\ activity' = Cardinality(ready)
    /\ pc' = "listener"
    /\ UNCHANGED <<clients, client_names, max_fd, i, frame, status, pending,
                   peer, inbound, outq, ev, sent, reads, firstMsg, hasRead>>
    /\ UNCHANGED cvars

\* the `continue` left out: a failed select() falls through to FD_ISSET
AfterSelectError_fallthrough == "listener"

\* where the loop goes when select() returned a negative value: `continue`
AfterSelectError == "build"

\* select() fails: "Select error" is logged and the loop is retried
SelectError ==
    /\ Running /\ pc = "select"
    /\ activity' = -1
    /\ pc' = AfterSelectError
    /\ UNCHANGED <<clients, client_names, read_fds, max_fd, i, frame, status,
                   pending, peer, inbound, outq, ev, sent, reads, firstMsg,
                   hasRead>>
    /\ UNCHANGED cvars

\* FD_ISSET(server_fd) is false: straight to the client scan
ListenerIdle ==
    /\ Running /\ pc = "listener"
    /\ server_fd \notin read_fds
    /\ pc' = "scan"
    /\ i' = 0
    /\ UNCHANGED <<clients, client_names, read_fds, max_fd, activity, frame,
                   status, pending, peer, inbound, outq, ev, sent, reads,
                   firstMsg, hasRead>>
    /\ UNCHANGED cvars

\* the prompt left out of the new-connection branch
Greeting_none(new_client) == <<>>

\* what the new-connection branch sends to the new client: the prompt
Greeting(new_client) == <<Prompt>>

\* accept() gives the lowest free descriptor; push_back; the prompt is sent.
\* The connection may have been reset while it waited in the listen queue:
\* the send then returns an error
AcceptOk ==
    /\ Running /\ pc = "listener"
    /\ server_fd \in read_fds
    /\ pending > 0
    /\ FDs \ Range(clients) # {}
    /\ LET new_client == Min(FDs \ Range(clients))
           greeting == Greeting(new_client)
       IN  /\ clients' = Append(clients, new_client)
           /\ pending' = pending - 1
           /\ \E arrived \in {"open", "rsterr"} :
                 IF arrived = "open" \/ greeting = <<>>
                 THEN /\ peer' = [peer EXCEPT ![new_client] = arrived]
                      /\ outq' = [outq EXCEPT ![new_client] = Len(greeting)]
                      /\ sent' = [k \in 1..Len(greeting) |->
                                    [to |-> new_client, msg |-> greeting[k],
                                     ok |-> TRUE]]
                 ELSE /\ peer' = [peer EXCEPT ![new_client] = "rst"]
                      /\ outq' = [outq EXCEPT ![new_client] = 0]
                      /\ sent' = <<[to |-> new_client, msg |-> greeting[1],
                                    ok |-> FALSE]>>
           /\ firstMsg' = [firstMsg EXCEPT ![new_client] =
                              IF greeting = <<>> THEN NoChunk ELSE greeting[1]]
           /\ ev' = [type |-> "accept", fd |-> new_client, before |-> clients,
                     done |-> TRUE]
    /\ pc' = "scan"
    /\ i' = 0
    /\ UNCHANGED <<client_names, read_fds, max_fd, activity, frame, status,
                   inbound, reads, hasRead>>
    /\ UNCHANGED cvars

\* accept() fails: "Accept failed!" is logged, then `continue` restarts
\* the while loop, so the client scan of this iteration does not run
AcceptFail ==
    /\ Running /\ pc = "listener"
    /\ server_fd \in read_fds
    /\ ev' = [type |-> "accept_failed", before |-> clients,
              names |-> client_names, done |-> TRUE]
    /\ sent' = <<>>
    /\ pc' = "build"
    /\ UNCHANGED <<clients, client_names, read_fds, max_fd, activity, i, frame,
                   status, pending, peer, inbound, outq, reads, firstMsg,
                   hasRead>>
    /\ UNCHANGED cvars

\* the scan loop's condition i < clients.size() is false
ScanDone ==
    /\ Running /\ pc = "scan"
    /\ i >= Len(clients)
    /\ pc' = "build"
    /\ ev' = NoEvent
    /\ sent' = <<>>
    /\ UNCHANGED <<clients, client_names, read_fds, max_fd, activity, i, frame,
                   status, pending, peer, inbound, outq, reads, firstMsg,
                   hasRead>>
    /\ UNCHANGED cvars

\* FD_ISSET(client) is false: i++
ScanSkip ==
    /\ Running /\ pc = "scan"
    /\ i < Len(clients)
    /\ clients[i + 1] \notin read_fds
    /\ i' = i + 1
    /\ ev' = NoEvent
    /\ sent' = <<>>
    /\ UNCHANGED <<clients, client_names, pc, read_fds, max_fd, activity, frame,
                   status, pending, peer, inbound, outq, reads, firstMsg,
                   hasRead>>
    /\ UNCHANGED cvars

\* close(client); clients.erase(clients.begin() + i); client_names.erase(client)
ClosedPeer(client) == [peer EXCEPT ![client] = "none"]
\* clients.erase(...) left out
ErasedClients_none(idx) == clients

ErasedClients(idx) == EraseAt(clients, idx)

\* the loop index is left as it is after the erase
IndexAfterErase_noDecrement(idx) == idx + 1

\* i-- after the erase, then the loop's i++: the element that moved into
\* position i is the next one looked at
IndexAfterErase(idx) == (idx - 1) + 1
\* client_names.erase(client) left out
ErasedNames_kept(names, client) == names

ErasedNames(names, client) == MapErase(names, client)

\* the map after `leaving_user = client_names[client]`: operator[] inserts an
\* empty string for a key that is absent
LookedUp(client) ==
    IF client \in DOMAIN client_names THEN client_names
    ELSE MapPut(client_names, client, <<>>)

\* what the lookup does to the map: an insertion when the key is absent
LookupOps(client) ==
    IF client \in DOMAIN client_names THEN <<>> ELSE <<"insert">>

\* the pre-state a handler starts from, kept for the properties, and the log
\* of what the handler does: the string it builds, its changes of the map,
\* its calls of broadcast, of close and of clients.erase
ReadEvent(client, valread, chunk) ==
    [type |-> "read", fd |-> client, valread |-> valread, chunk |-> chunk,
     first |-> ~hasRead[client],
     named |-> client \in DOMAIN client_names,
     name |-> IF client \in DOMAIN client_names THEN client_names[client]
              ELSE <<>>,
     before |-> clients, done |-> FALSE,
     message |-> NoChunk, nameOps |-> <<>>, bcasts |-> <<>>,
     closed |-> <<>>, erased |-> 0]

\* the first-message test made on the stored string, as the disconnection
\* branch makes it, instead of on the key
IsFirstMessage_byEmpty(client) ==
    client \notin DOMAIN client_names \/ client_names[client] = <<>>

\* client_names.find(client) == client_names.end()
IsFirstMessage(client) == client \notin DOMAIN client_names

\* the first-message branch: the username is stored, the join notice built
JoinFrame(client, message) ==
    [msg |-> message \o JoinSuffix, sender |-> client, j |-> 1,
     then |-> "next", client |-> client]

\* the regular-chat branch: full_msg = username + ": " + message
ChatFrame(client, message) ==
    [msg |-> client_names[client] \o Separator \o message, sender |-> client,
     j |-> 1, then |-> "next", client |-> client]

\* the disconnection branch with a username: leaving_msg, sent to everyone
LeaveFrame(client, leaving_user) ==
    [msg |-> leaving_user \o LeaveSuffix, sender |-> -1, j |-> 1,
     then |-> "cleanup", client |-> client]

\* read() returns valread > 0 bytes: first message or regular chat.  The
\* bytes are whatever the peer wrote: any chunk of 1..BufSize bytes
ReadData ==
    /\ Running /\ pc = "scan"
    /\ i < Len(clients)
    /\ LET client == clients[i + 1]
       IN  /\ client \in read_fds
           /\ inbound[client] > 0
           /\ \E chunk \in Chunks :
                 /\ \E message \in MessageOf(chunk) :
                       /\ IF IsFirstMessage(client)
                          THEN /\ client_names' =
                                     MapPut(client_names, client, message)
                               /\ frame' = JoinFrame(client, message)
                          ELSE /\ client_names' = client_names
                               /\ frame' = ChatFrame(client, message)
                       /\ ev' = [ReadEvent(client, Len(chunk), chunk) EXCEPT
                                   !.message = message,
                                   !.nameOps = IF IsFirstMessage(client)
                                               THEN <<"insert">> ELSE <<>>,
                                   !.bcasts = <<frame'.msg>>]
           /\ hasRead' = [hasRead EXCEPT ![client] = TRUE]
           /\ inbound' = [inbound EXCEPT ![client] = @ - 1]
           /\ reads' = Append(reads, client)
    /\ sent' = <<>>
    /\ pc' = "bcast"
    /\ UNCHANGED <<clients, read_fds, max_fd, activity, i, status, pending,
                   peer, outq, firstMsg>>
    /\ UNCHANGED cvars

\* std::string message(buffer) on a full buffer without a NUL byte runs past
\* the end of the buffer; one outcome is that the process is stopped there
ReadCrash ==
    /\ Running /\ pc = "scan"
    /\ i < Len(clients)
    /\ LET client == clients[i + 1]
       IN  /\ client \in read_fds
           /\ inbound[client] > 0
           /\ \E chunk \in Chunks :
                 /\ ReadsPastBuffer(chunk)
                 /\ ev' = ReadEvent(client, Len(chunk), chunk)
           /\ inbound' = [inbound EXCEPT ![client] = @ - 1]
           /\ reads' = Append(reads, client)
    /\ status' = "crashed"
    /\ sent' = <<>>
    /\ UNCHANGED <<clients, client_names, pc, read_fds, max_fd, activity, i,
                   frame, pending, peer, outq, firstMsg, hasRead>>
    /\ UNCHANGED cvars

\* read() returns valread <= 0: orderly close (0) or error (-1)
ReadEof ==
    /\ Running /\ pc = "scan"
    /\ i < Len(clients)
    /\ LET client == clients[i + 1]
           valread == IF peer[client] = "rsterr" THEN -1 ELSE 0
           leaving_user == LookedUp(client)[client]
       IN  /\ client \in read_fds
           /\ inbound[client] = 0
           /\ peer[client] \in {"fin", "rsterr", "rst"}
           /\ ev' = IF leaving_user = <<>>
                    THEN [ReadEvent(client, valread, NoChunk) EXCEPT
                            !.done = TRUE,
                            !.nameOps = LookupOps(client) \o <<"erase">>,
                            !.closed = <<client>>,
                            !.erased = 1]
                    ELSE [ReadEvent(client, valread, NoChunk) EXCEPT
                            !.nameOps = LookupOps(client),
                            !.bcasts =
                               <<LeaveFrame(client, leaving_user).msg>>]
           /\ reads' = Append(reads, client)
           /\ IF leaving_user = <<>>
              THEN \* no notice: close and erase at once; i-- then i++
                   /\ peer' = ClosedPeer(client)
                   /\ clients' = ErasedClients(i)
                   /\ client_names' = ErasedNames(LookedUp(client), client)
                   /\ outq' = [outq EXCEPT ![client] = 0]
                   /\ firstMsg' = [firstMsg EXCEPT ![client] = NoChunk]
                   /\ hasRead' = [hasRead EXCEPT ![client] = FALSE]
                   /\ i' = IndexAfterErase(i)
                   /\ UNCHANGED <<pc, frame>>
              ELSE /\ peer' = [peer EXCEPT ![client] =
                                  IF @ = "rsterr" THEN "rst" ELSE @]
                   /\ frame' = LeaveFrame(client, leaving_user)
                   /\ pc' = "bcast"
                   /\ client_names' = LookedUp(client)
                   /\ UNCHANGED <<clients, outq, firstMsg, hasRead, i>>
    /\ sent' = <<>>
    /\ UNCHANGED <<read_fds, max_fd, activity, status, pending, inbound>>
    /\ UNCHANGED cvars

(***************************************************************************)
(* broadcast(message, sender_socket): for (int client : clients)           *)
(***************************************************************************)
\* the range-for returns after its first element
BroadcastFinished_early == frame.j > 1

\* the range-for over clients has passed the last element
BroadcastFinished == frame.j > Len(clients)

\* client == sender_socket: no send for this element
BroadcastSkip ==
    /\ Running /\ pc = "bcast"
    /\ frame.j <= Len(clients)
    /\ clients[frame.j] = frame.sender
    /\ frame' = [frame EXCEPT !.j = @ + 1]
    /\ UNCHANGED <<clients, client_names, pc, read_fds, max_fd, activity, i,
                   status, pending, peer, inbound, outq, ev, sent, reads,
                   firstMsg, hasRead>>
    /\ UNCHANGED cvars

\* send(client, message...) returns: the bytes are queued, or the call fails
\* with an error on a connection whose reset has not been reported yet
BroadcastSend ==
    /\ Running /\ pc = "bcast"
    /\ frame.j <= Len(clients)
    /\ LET target == clients[frame.j]
       IN  /\ target # frame.sender
           /\ \/ /\ SendOutcome(target) = "ok"
                 /\ outq' = [outq EXCEPT ![target] = @ + 1]
                 /\ sent' = Logged(target, frame.msg, TRUE)
                 /\ peer' = peer
              \/ /\ SendOutcome(target) = "error"
                 /\ outq' = outq
                 /\ sent' = Logged(target, frame.msg, FALSE)
                 /\ peer' = [peer EXCEPT ![target] = "rst"]
           /\ firstMsg' = FirstNoted(target, frame.msg)
    /\ frame' = [frame EXCEPT !.j = @ + 1]
    /\ UNCHANGED <<clients, client_names, pc, read_fds, max_fd, activity, i,
                   status, pending, inbound, ev, reads, hasRead>>
    /\ UNCHANGED cvars

\* send() on a connection that was reset: EPIPE, and SIGPIPE, which the
\* server neither ignores nor handles, ends the process
BroadcastSigpipe ==
    /\ Running /\ pc = "bcast"
    /\ frame.j <= Len(clients)
    /\ clients[frame.j] # frame.sender
    /\ SendOutcome(clients[frame.j]) = "sigpipe"
    /\ status' = "sigpipe"
    /\ UNCHANGED <<clients, client_names, pc, read_fds, max_fd, activity, i,
                   frame, pending, peer, inbound, outq, ev, sent, reads,
                   firstMsg, hasRead>>
    /\ UNCHANGED cvars

\* broadcast returns; a disconnection is then cleaned up (i--, then i++)
BroadcastReturn ==
    /\ Running /\ pc = "bcast"
    /\ BroadcastFinished
    /\ IF frame.then = "cleanup"
       THEN /\ peer' = ClosedPeer(frame.client)
            /\ clients' = ErasedClients(i)
            /\ client_names' = ErasedNames(client_names, frame.client)
            /\ inbound' = [inbound EXCEPT ![frame.client] = 0]
            /\ outq' = [outq EXCEPT ![frame.client] = 0]
            /\ firstMsg' = [firstMsg EXCEPT ![frame.client] = NoChunk]
            /\ hasRead' = [hasRead EXCEPT ![frame.client] = FALSE]
            /\ i' = IndexAfterErase(i)
            /\ ev' = [ev EXCEPT !.done = TRUE,
                                !.nameOps = @ \o <<"erase">>,
                                !.closed = Append(@, frame.client),
                                !.erased = @ + 1]
       ELSE /\ i' = i + 1
            /\ ev' = [ev EXCEPT !.done = TRUE]
            /\ UNCHANGED <<clients, client_names, peer, inbound, outq,
                           firstMsg, hasRead>>
    /\ frame' = NoFrame
    /\ pc' = "scan"
    /\ UNCHANGED <<read_fds, max_fd, activity, status, pending, sent, reads>>
    /\ UNCHANGED cvars

(***************************************************************************)
(* The peers: client programs (src/client.cpp) or any other TCP client.    *)
(***************************************************************************)
\* connect(): the connection waits in the listen queue
ClientConnect ==
    /\ Running
    /\ pending < MaxPending
    /\ pending' = pending + 1
    /\ UNCHANGED <<clients, client_names, pc, read_fds, max_fd, activity, i,
                   frame, status, peer, inbound, outq, ev, sent, reads,
                   firstMsg, hasRead>>
    /\ UNCHANGED cvars

\* send(): bytes arrive, to be returned by one read() of the server
PeerSend ==
    /\ Running
    /\ \E fd \in FDs :
          /\ peer[fd] = "open"
          /\ inbound[fd] < MaxInbound
          /\ inbound' = [inbound EXCEPT ![fd] = @ + 1]
    /\ UNCHANGED <<clients, client_names, pc, read_fds, max_fd, activity, i,
                   frame, status, pending, peer, outq, ev, sent, reads,
                   firstMsg, hasRead>>
    /\ UNCHANGED cvars

\* read() in recieveMessage: the peer takes the oldest message
PeerRecv ==
    /\ Running
    /\ \E fd \in FDs :
          /\ peer[fd] \in {"open", "fin"}
          /\ outq[fd] > 0
          /\ outq' = [outq EXCEPT ![fd] = @ - 1]
    /\ UNCHANGED <<clients, client_names, pc, read_fds, max_fd, activity, i,
                   frame, status, pending, peer, inbound, ev, sent, reads,
                   firstMsg, hasRead>>
    /\ UNCHANGED cvars

\* the peer ends its sending direction in order: the server will read 0
PeerClose ==
    /\ Running
    /\ \E fd \in FDs :
          /\ peer[fd] = "open"
          /\ peer' = [peer EXCEPT ![fd] = "fin"]
    /\ UNCHANGED <<clients, client_names, pc, read_fds, max_fd, activity, i,
                   frame, status, pending, inbound, outq, ev, sent, reads,
                   firstMsg, hasRead>>
    /\ UNCHANGED cvars

\* the connection is reset (the peer closed with unread data, or was
\* killed): what the server had queued for it is dropped
PeerReset ==
    /\ Running
    /\ \E fd \in FDs :
          /\ peer[fd] \in {"open", "fin"}
          /\ peer' = [peer EXCEPT ![fd] = "rsterr"]
          /\ outq' = [outq EXCEPT ![fd] = 0]
    /\ UNCHANGED <<clients, client_names, pc, read_fds, max_fd, activity, i,
                   frame, status, pending, inbound, ev, sent, reads,
                   firstMsg, hasRead>>
    /\ UNCHANGED cvars

(***************************************************************************)
(* The client program (src/client.cpp): the main thread reads lines from   *)
(* the user and sends them, a detached thread reads from the socket.  Its  *)
(* server is the environment here.                                         *)
(***************************************************************************)
\* what the user can type at a prompt
Lines == {"quit", "", "hi"}

\* the process has neither returned from main nor been stopped by a signal
Alive == main_pc \notin {"exited", "killed"}

\* a read of the plain bool `running` by thread t: the two threads access it
\* without synchronisation, so the read gives the value in memory or the
\* value the thread saw before
Load(t) == {running, view[t]}

\* the socket after a send() on it: data sent after the server's FIN is
\* answered by a reset
AfterSend(c) == IF c = "fin" THEN "rst" ELSE c

\* getline(std::cin, username); send(sock_fd, username...)
EnterUsername ==
    /\ main_pc = "username"
    /\ typed < MaxLines
    /\ \E username \in Lines : input' = username
    /\ typed' = typed + 1
    /\ nsent' = nsent + 1
    /\ conn' = AfterSend(conn)
    /\ main_pc' = "spawn"
    /\ UNCHANGED <<running, view, recv_pc, unread>>
    /\ UNCHANGED svars

\* std::thread(recieveMessage).detach()
StartThread ==
    /\ main_pc = "spawn"
    /\ recv_pc' = "while"
    /\ main_pc' = "while"
    /\ UNCHANGED <<running, view, input, typed, conn, unread, nsent>>
    /\ UNCHANGED svars

\* main: while(running)
MainTest ==
    /\ main_pc = "while"
    /\ \E seen \in Load("main") :
          /\ view' = [view EXCEPT !["main"] = seen]
          /\ main_pc' = IF seen THEN "getline" ELSE "close"
    /\ UNCHANGED <<running, recv_pc, input, typed, conn, unread, nsent>>
    /\ UNCHANGED svars

\* std::getline(std::cin, message) returns the line the user typed
MainGetline ==
    /\ main_pc = "getline"
    /\ typed < MaxLines
    /\ \E line \in Lines : input' = line
    /\ typed' = typed + 1
    /\ main_pc' = "typed"
    /\ UNCHANGED <<running, view, recv_pc, conn, unread, nsent>>
    /\ UNCHANGED svars

\* message == "quit": running = false; break
MainQuit ==
    /\ main_pc = "typed"
    /\ input = "quit"
    /\ running' = FALSE
    /\ view' = [view EXCEPT !["main"] = FALSE]
    /\ main_pc' = "close"
    /\ UNCHANGED <<recv_pc, input, typed, conn, unread, nsent>>
    /\ UNCHANGED svars

\* !message.empty(): send(sock_fd, message...); on a connection that was
\* reset the call raises SIGPIPE, which the client does not handle
MainSend ==
    /\ main_pc = "typed"
    /\ input \notin {"quit", ""}
    /\ nsent' = nsent + 1
    /\ conn' = AfterSend(conn)
    /\ main_pc' = IF conn = "rst" THEN "killed" ELSE "while"
    /\ UNCHANGED <<running, view, recv_pc, input, typed, unread>>
    /\ UNCHANGED svars

\* message.empty(): nothing is sent
MainEmpty ==
    /\ main_pc = "typed"
    /\ input = ""
    /\ main_pc' = "while"
    /\ UNCHANGED <<running, view, recv_pc, input, typed, conn, unread, nsent>>
    /\ UNCHANGED svars

\* close(sock_fd); return 0: the process, its detached thread included, ends
MainClose ==
    /\ main_pc = "close"
    /\ main_pc' = "exited"
    /\ UNCHANGED <<running, view, recv_pc, input, typed, conn, unread, nsent>>
    /\ UNCHANGED svars

\* recieveMessage: while(running)
RecvTest ==
    /\ Alive
    /\ recv_pc = "while"
    /\ \E seen \in Load("recv") :
          /\ view' = [view EXCEPT !["recv"] = seen]
          /\ recv_pc' = IF seen THEN "read" ELSE "done"
    /\ UNCHANGED <<running, main_pc, input, typed, conn, unread, nsent>>
    /\ UNCHANGED svars

\* read() returns a message of the server; it is printed
RecvData ==
    /\ Alive
    /\ recv_pc = "read"
    /\ unread > 0
    /\ unread' = unread - 1
    /\ recv_pc' = "while"
    /\ UNCHANGED <<running, view, main_pc, input, typed, conn, nsent>>
    /\ UNCHANGED svars

\* valread <= 0: "Disconnected from server"; running = false; break
RecvDisconnected ==
    /\ Alive
    /\ recv_pc = "read"
    /\ unread = 0
    /\ conn \in {"fin", "rst"}
    /\ running' = FALSE
    /\ view' = [view EXCEPT !["recv"] = FALSE]
    /\ recv_pc' = "done"
    /\ UNCHANGED <<main_pc, input, typed, conn, unread, nsent>>
    /\ UNCHANGED svars

\* the server broadcasts a message to this client
ServerSends ==
    /\ Alive
    /\ conn = "open"
    /\ unread < MaxUnread
    /\ unread' = unread + 1
    /\ UNCHANGED <<running, view, main_pc, recv_pc, input, typed, conn, nsent>>
    /\ UNCHANGED svars

\* the server closes the connection or ends
ServerCloses ==
    /\ Alive
    /\ conn = "open"
    /\ conn' = "fin"
    /\ UNCHANGED <<running, view, main_pc, recv_pc, input, typed, unread,
                   nsent>>
    /\ UNCHANGED svars

Next ==
    \/ BuildInterest
    \/ SelectReady
    \/ SelectError
    \/ ListenerIdle
    \/ AcceptOk
    \/ AcceptFail
    \/ ScanDone
    \/ ScanSkip
    \/ ReadData
    \/ ReadCrash
    \/ ReadEof
    \/ BroadcastSkip
    \/ BroadcastSend
    \/ BroadcastSigpipe
    \/ BroadcastReturn
    \/ ClientConnect
    \/ PeerSend
    \/ PeerRecv
    \/ PeerClose
    \/ PeerReset

Spec == Init /\ [][Next]_vars

\* the steps of the loop thread when no call fails and the process goes on
ServerStep ==
    \/ BuildInterest
    \/ SelectReady
    \/ ListenerIdle
    \/ AcceptOk
    \/ ScanDone
    \/ ScanSkip
    \/ ReadData
    \/ ReadEof
    \/ BroadcastSkip
    \/ BroadcastSend
    \/ BroadcastReturn

\* the loop thread keeps running, and select() and accept() do not fail
\* for ever: a call that could succeed again and again does succeed
FairSpec ==
    /\ Spec
    /\ WF_vars(ServerStep)
    /\ SF_vars(SelectReady)
    /\ SF_vars(AcceptOk)

ClientNext ==
    \/ EnterUsername
    \/ StartThread
    \/ MainTest
    \/ MainGetline
    \/ MainQuit
    \/ MainSend
    \/ MainEmpty
    \/ MainClose
    \/ RecvTest
    \/ RecvData
    \/ RecvDisconnected
    \/ ServerSends
    \/ ServerCloses

\* the client program alone, its server being the environment
ClientSpec == Init /\ [][ClientNext]_vars

(***************************************************************************)
(* Properties.  A handler's sends are judged when the handler has run to   *)
(* its end (ev.done); `ev` holds what the handler started from.            *)
(***************************************************************************)
\* number of send() calls of the current event to descriptor fd with text msg
Count(fd, msg) ==
    Cardinality({k \in 1..Len(sent) : sent[k].to = fd /\ sent[k].msg = msg})

SentTo(fd) == {k \in 1..Len(sent) : sent[k].to = fd}

Joined(fd) == fd \in DOMAIN client_names

ReadDone == ev.type = "read" /\ ev.done

\* C1: for every chat chunk M read from a connection C that has the username
\* U, the line "U: M" is sent exactly once to every other joined connection
\* of the ConnectionSet, and no copy is sent to C.
C1_ChatLineIsUsernameColonChunk ==
    (ReadDone /\ ev.valread > 0 /\ ev.named) =>
        /\ \A d \in Range(ev.before) \ {ev.fd} :
              Joined(d) => Count(d, ev.name \o Separator \o ev.chunk) = 1
        /\ SentTo(ev.fd) = {}

\* the part of C1 that the code keeps: the line carries the string built
\* from the chunk, and goes once to every other connection, never to C
C1_LineFromBuiltString ==
    (ReadDone /\ ev.valread > 0 /\ ev.named) =>
        /\ \E message \in MessageOf(ev.chunk) :
              \A d \in Range(ev.before) \ {ev.fd} :
                 /\ Count(d, ev.name \o Separator \o message) = 1
                 /\ Cardinality(SentTo(d)) = 1
        /\ SentTo(ev.fd) = {}

\* C2: when a connection sends its first chunk U, every other joined
\* connection is sent the join notice "U has joined the chat!" exactly once,
\* and the new connection is sent no join notice.
C2_JoinNoticeIsChunkPlusSuffix ==
    (ReadDone /\ ev.valread > 0 /\ ~ev.named) =>
        /\ \A d \in Range(ev.before) \ {ev.fd} :
              Joined(d) => Count(d, ev.chunk \o JoinSuffix) = 1
        /\ SentTo(ev.fd) = {}

\* the part of C2 that the code keeps: the notice carries the stored
\* username, and goes once to every other connection, never to the new one
C2_NoticeFromStoredUsername ==
    (ReadDone /\ ev.valread > 0 /\ ~ev.named) =>
        /\ client_names[ev.fd] \in MessageOf(ev.chunk)
        /\ \A d \in Range(ev.before) \ {ev.fd} :
              /\ Count(d, client_names[ev.fd] \o JoinSuffix) = 1
              /\ Cardinality(SentTo(d)) = 1
        /\ SentTo(ev.fd) = {}

\* C3: when a read on a connection with the username U set returns zero or
\* less, the notice "U has left the chat" is sent exactly once to every
\* remaining client, and afterwards the connection is neither in the
\* ConnectionSet nor a key of the UsernameMap.
C3_DepartureNoticeForEveryNamed ==
    (ReadDone /\ ev.valread <= 0 /\ ev.named) =>
        /\ \A d \in Range(ev.before) \ {ev.fd} :
              Count(d, ev.name \o LeaveSuffix) = 1
        /\ ev.fd \notin Range(clients)
        /\ ev.fd \notin DOMAIN client_names

\* the part of C3 that the code keeps: a non-empty username whose handler
\* runs to its end gets its notice out once to every remaining client (and
\* once to the leaving descriptor itself), and the cleanup is complete
C3_NoticeForNonEmptyUsername ==
    (ReadDone /\ ev.valread <= 0 /\ ev.named /\ ev.name # <<>>) =>
        /\ \A d \in Range(ev.before) :
              /\ Count(d, ev.name \o LeaveSuffix) = 1
              /\ Cardinality(SentTo(d)) = 1
        /\ ev.fd \notin Range(clients)
        /\ ev.fd \notin DOMAIN client_names

\* C4: a connection that disconnects before any successful read causes no
\* send at all, leaves the ConnectionSet and leaves no UsernameMap entry; a
\* connection accepted later on the same descriptor has no username, and
\* its first chunk is stored as its username.
C4_AnonymousDisconnectLeavesNothing ==
    /\ (ReadDone /\ ev.valread <= 0 /\ ev.first) =>
          /\ ~ev.named
          /\ sent = <<>>
          /\ ev.fd \notin Range(clients)
          /\ ev.fd \notin DOMAIN client_names
    /\ ev.type = "accept" => ev.fd \notin DOMAIN client_names
    /\ (ev.type = "read" /\ ev.valread > 0 /\ ev.first /\ status # "crashed") =>
          /\ ~ev.named
          /\ ev.fd \in DOMAIN client_names
          /\ client_names[ev.fd] \in MessageOf(ev.chunk)
          /\ \A k \in 1..Len(sent) :
                sent[k].msg = client_names[ev.fd] \o JoinSuffix

\* descriptor 4 sits behind descriptor 5 in the vector only when it was
\* closed and given out again: its first chunk is being handled as a
\* username and the notice has gone to the older connection
C4_Witness ==
    /\ ev.type = "read" /\ ev.fd = server_fd + 1 /\ ev.first /\ ev.valread > 0
    /\ ev.before = <<server_fd + 2, server_fd + 1>>
    /\ ev.done
    /\ sent # <<>>

\* C5: a failed send to one recipient neither aborts the broadcast nor ends
\* the server loop, whatever state the recipient's connection is in: the
\* process is never stopped inside a broadcast.
C5_BroadcastSurvivesAnyRecipient ==
    ~(pc = "bcast" /\ status = "sigpipe")

\* the server thread waits inside send() for one recipient's buffer
BlockedInSend ==
    /\ Running /\ pc = "bcast"
    /\ frame.j <= Len(clients)
    /\ clients[frame.j] # frame.sender
    /\ SendOutcome(clients[frame.j]) = "block"

\* C6: the server thread blocks only in select(): it is never waiting
\* inside a send to one specific client.
C6_NeverBlockedOnOneClient == ~BlockedInSend

\* C7: a stored username is never overwritten: while the connection stays
\* in the ConnectionSet its entry keeps the value stored from its first
\* chunk, whatever it sends later; the entry only goes away, erased with
\* the connection on disconnection.
C7_UsernameNeverOverwritten ==
    [][\A fd \in FDs :
          /\ (fd \in DOMAIN client_names /\ fd \in DOMAIN client_names') =>
                client_names'[fd] = client_names[fd]
          /\ (fd \in DOMAIN client_names /\ fd \notin DOMAIN client_names') =>
                /\ fd \in Range(clients) /\ fd \notin Range(clients')
                /\ ev'.type = "read" /\ ev'.fd = fd /\ ev'.valread <= 0
          /\ (fd \notin DOMAIN client_names /\ fd \in DOMAIN client_names') =>
                /\ ev'.type = "read" /\ ev'.fd = fd /\ ev'.first
                /\ client_names'[fd] \in MessageOf(ev'.chunk)
      ]_vars

\* a connection with a username has had a later chunk handled as chat
C7_Witness ==
    /\ ReadDone /\ ev.valread > 0 /\ ev.named /\ ~ev.first
    /\ client_names[ev.fd] = ev.name
    /\ ev.name = <<>>

\* C8: a successful accept adds exactly one connection, at the end of the
\* ConnectionSet, and sends it the prompt in the same step; the prompt is
\* the first thing ever sent to a connection.
C8_GreetingFirst ==
    /\ \A fd \in Range(clients) : firstMsg[fd] = Prompt
    /\ ev.type = "accept" =>
          /\ clients = Append(ev.before, ev.fd)
          /\ Len(sent) = 1
          /\ sent[1].to = ev.fd /\ sent[1].msg = Prompt

\* a broadcast line has been sent to a connection accepted earlier
C8_Witness ==
    /\ ev.type = "read"
    /\ \E k \in 1..Len(sent) :
          /\ sent[k].msg # Prompt
          /\ sent[k].to \in Range(clients)
          /\ firstMsg[sent[k].to] = Prompt

\* C9: when accept fails, the ConnectionSet and the UsernameMap are
\* unchanged and every client reported ready in that iteration is still
\* read in that iteration.
C9_ReadyClientsReadDespiteAcceptFailure ==
    (pc = "build" /\ ev.type = "accept_failed") =>
        /\ clients = ev.before
        /\ client_names = ev.names
        /\ \A fd \in read_fds \ {server_fd} : fd \in Range(reads)

\* C10: when select() returns an error the iteration accepts, reads, sends
\* and closes nothing, the ConnectionSet and the UsernameMap stay as they
\* are, and the next iteration starts by rebuilding the interest set from
\* the ConnectionSet.
C10_SelectErrorChangesNothing ==
    [][/\ (pc = "select" /\ pc' # "select" /\ activity' < 0) =>
             /\ pc' = "build"
             /\ UNCHANGED <<clients, client_names, pending, inbound, outq,
                            peer, sent, reads, status>>
       /\ (pc = "build" /\ pc' # "build") =>
             /\ pc' = "select"
             /\ clients' = clients
             /\ read_fds' = {server_fd} \cup Range(clients)
      ]_vars

\* select() has just failed with clients connected, one of them ready
C10_Witness ==
    /\ pc = "build" /\ activity < 0
    /\ clients # <<>>
    /\ \E fd \in Range(clients) : Readable(fd)

(***************************************************************************)
(* C11                                                                     *)
(***************************************************************************)
\* the number of positions of the vector that hold fd
Occurrences(v, fd) == Cardinality({k \in 1..Len(v) : v[k] = fd})

\* C11: cleanup happens once per connection. A descriptor is never twice in
\* the vector and every descriptor of the vector is open, so that a
\* connection that was closed and removed cannot be handled again; a handler
\* that ran to its end on a read of 0 or less called close once, on its own
\* descriptor, erased once, left the descriptor out of the vector and called
\* broadcast at most once; a handler of a chunk closed and erased nothing.
C11_CleanupHappensOnce ==
    /\ \A fd \in FDs : Occurrences(clients, fd) <= 1
    /\ \A fd \in Range(clients) : peer[fd] # "none"
    /\ ev.type = "read" => Occurrences(ev.before, ev.fd) = 1
    /\ ReadDone =>
          IF ev.valread <= 0
          THEN /\ ev.closed = <<ev.fd>>
               /\ ev.erased = 1
               /\ peer[ev.fd] = "none"
               /\ ev.fd \notin Range(clients)
               /\ Len(clients) = Len(ev.before) - 1
               /\ Len(ev.bcasts) <= 1
               /\ \A fd \in FDs : Count(fd, ev.name \o LeaveSuffix) <= 1
          ELSE /\ ev.closed = <<>>
               /\ ev.erased = 0
               /\ clients = ev.before

\* a named client left while another was connected: notice, close, erase
C11_Witness ==
    /\ ReadDone
    /\ ev.valread <= 0
    /\ ev.name # <<>>
    /\ Len(ev.before) = 2
    /\ Len(ev.bcasts) = 1
    /\ ev.closed = <<ev.fd>>

(***************************************************************************)
(* C12                                                                     *)
(***************************************************************************)
\* the client scan of this iteration ran to its end (ScanDone): not the
\* start, not a failed select, not a failed accept
ScanCompleted == pc = "build" /\ ev.type = "none" /\ activity > 0

\* C12: a removal during the pass neither skips nor repeats a connection.
\* When the scan of an iteration has ended, every client descriptor that
\* select reported ready was read exactly once in the pass and no other
\* descriptor was read, whichever of the ready clients disconnected.
C12_EveryReadyClientReadOnce ==
    ScanCompleted =>
       \A fd \in FDs :
          Occurrences(reads, fd) = IF fd \in read_fds THEN 1 ELSE 0

\* two clients were ready, the first one was removed during the pass and
\* the second one was read after it
C12_Witness ==
    /\ ScanCompleted
    /\ Len(reads) = 2
    /\ reads[1] \notin Range(clients)
    /\ reads[2] \in Range(clients)

(***************************************************************************)
(* C13                                                                     *)
(***************************************************************************)
\* C13: one read event changes the UsernameMap at most once, changes the
\* ConnectionSet at most once and then only by a removal, and calls
\* broadcast at most once.
C13_AtMostOneMutationEach ==
    ev.type = "read" =>
       /\ Len(ev.nameOps) <= 1
       /\ ev.erased <= 1
       /\ Len(clients) \in {Len(ev.before), Len(ev.before) - 1}
       /\ Len(ev.bcasts) <= 1

(***************************************************************************)
(* C14                                                                     *)
(***************************************************************************)
\* the descriptors a broadcast of the current read event sends to, in the
\* order of the vector: all but the sender for a join notice or a chat line,
\* all for a departure notice (sender_socket is -1)
Recipients ==
    LET sender == IF ev.valread > 0 THEN ev.fd ELSE -1
        Other(fd) == fd # sender
    IN  SelectSeq(ev.before, Other)

\* C14: a broadcast is atomic with respect to event handling. A read on a
\* descriptor starts only when no broadcast is in progress and the handler
\* of the read before it has ended; every send that returns while an event
\* is handled carries that event's message; and when the handler of an event
\* that broadcast has ended, one send of its message was issued to every
\* recipient, in the order of the vector. So the sends of two events are
\* never interleaved and each recipient gets them in the handling order.
C14_BroadcastsAreAtomic ==
    /\ [](ev.type = "read" =>
             /\ \A k \in 1..Len(sent) :
                   /\ Len(ev.bcasts) = 1
                   /\ sent[k].msg = ev.bcasts[1]
                   /\ k <= Len(Recipients)
                   /\ sent[k].to = Recipients[k]
             /\ (ev.done /\ Len(ev.bcasts) = 1) => Len(sent) = Len(Recipients))
    /\ [][(Len(reads') > Len(reads)) =>
             /\ pc = "scan"
             /\ frame = NoFrame
             /\ (ev.type = "read" => ev.done)]_vars

\* the second read event of one pass has ended and its broadcast sent to
\* two descriptors, after the first event's own handler
C14_Witness ==
    /\ ReadDone
    /\ Len(reads) = 2
    /\ Len(ev.bcasts) = 1
    /\ Len(sent) = 2

(***************************************************************************)
(* C15                                                                     *)
(***************************************************************************)
\* C15: the string built from a read is delimited inside the buffer. For a
\* read of n bytes, 1 <= n <= BufSize, a full buffer without a NUL byte
\* included, building the string reads no byte past the end of the buffer
\* (the process is not stopped there) and the string has at most n bytes.
C15_MessageDelimitedInBuffer ==
    (ev.type = "read" /\ ev.valread > 0) =>
       /\ status # "crashed"
       /\ Len(ev.message) <= ev.valread

(***************************************************************************)
(* C16                                                                     *)
(***************************************************************************)
\* C16: while the loop thread runs and the errors of select and accept are
\* not permanent, every client with unread data is eventually read and every
\* client whose peer closed is eventually closed and removed, whatever else
\* is ready. After the process has ended nothing is read or closed any more,
\* so the claim needs that the process has not ended while a client of the
\* ConnectionSet has unread data or a closed peer: a finite run refutes it.
C16_ReadyClientsAreServed ==
    \A fd \in Range(clients) : Readable(fd) => Running

(***************************************************************************)
(* C17                                                                     *)
(***************************************************************************)
\* C17: join and departure notices are paired. A connection has a key in
\* the UsernameMap exactly when its join notice was broadcast; when a read on
\* such a connection returns 0 or less, broadcast is called with its
\* departure notice, also when the username is empty.
C17_JoinPairedWithDeparture ==
    (ev.type = "read" /\ ev.valread <= 0 /\ ev.named) =>
        ev.bcasts = <<ev.name \o LeaveSuffix>>

(***************************************************************************)
(* C18                                                                     *)
(***************************************************************************)
\* C18: after a read on a connection has returned 0 or less, the server
\* calls send on that descriptor no more: while that read event is handled
\* no send to the descriptor returns and none ends the process.
C18_NoSendAfterFailedRead ==
    (ev.type = "read" /\ ev.valread <= 0) =>
        /\ SentTo(ev.fd) = {}
        /\ ~(/\ status = "sigpipe"
             /\ frame.j <= Len(clients)
             /\ clients[frame.j] = ev.fd)

(***************************************************************************)
(* C19                                                                     *)
(***************************************************************************)
\* the loop is between two iterations: at the top of while (true)
IterationBoundary == pc = "build"

\* C19: at every iteration boundary the ConnectionSet holds no descriptor
\* twice, every descriptor in it is open, and every key of the UsernameMap
\* is a descriptor of the ConnectionSet.
C19_RegistryConsistentAtBoundary ==
    IterationBoundary =>
       /\ \A k, l \in 1..Len(clients) : clients[k] = clients[l] => k = l
       /\ \A k \in 1..Len(clients) : peer[clients[k]] # "none"
       /\ DOMAIN client_names \subseteq Range(clients)

\* an iteration has ended in which a client was closed and removed while a
\* client with a username stays connected
C19_Witness ==
    /\ IterationBoundary
    /\ \E fd \in Range(reads) : fd \notin Range(clients) /\ peer[fd] = "none"
    /\ DOMAIN client_names # {}

(***************************************************************************)
(* C20                                                                     *)
(***************************************************************************)
\* C20: in the client program, once `running` has been set to false, by the
\* receive thread on the server's disconnection or by the main thread on
\* "quit", the main thread calls send no more: no step taken while the flag
\* is false is a send.
C20_NoSendAfterRunningCleared ==
    [][~running => nsent' = nsent]_vars

====
